---- MODULE Spec2Model ----
(***************************************************************************)
(* A model of pierre_storage/client.py: the GitStorage client.             *)
(*                                                                         *)
(* Python values are records of one shape (kind, s, n) so that values of   *)
(* different Python types can be compared.  A Python str is a sequence of  *)
(* chunks (each chunk a run of characters), which lets str.strip and       *)
(* str.replace be computed rather than assumed.  A Python dict is a        *)
(* function from the keys present to values.                               *)
(***************************************************************************)
EXTENDS Integers, Sequences, FiniteSets, TLC

VARIABLES
    phase,      \* "start" | "failed" | "ready": where the constructor got to
    ctorInput,  \* the options dict handed to GitStorage(...)
    ctorError,  \* the exception the constructor raised, or NoError
    heap,       \* dict objects: heap[SelfRef] is self.options
    held,       \* the dict object the caller holds from get_config, or "none"
    mutated,    \* whether the caller has changed a dict get_config returned
    last,       \* the call the (sequential) caller made last, or Idle
    task,       \* concurrent tasks: where each is in its operation
    requests    \* HTTP requests issued by the concurrent tasks

vars == <<phase, ctorInput, ctorError, heap, held, mutated, last, task, requests>>

----------------------------------------------------------------------------
(* Bounds of the model *)

MaxRepos == 2
NTasks == 2

----------------------------------------------------------------------------
(* Python values *)

PyNone == [kind |-> "none", s |-> <<>>, n |-> 0]
PyStr(chunks) == [kind |-> "str", s |-> chunks, n |-> 0]
PyInt(i) == [kind |-> "int", s |-> <<>>, n |-> i]
PyBool(b) == [kind |-> "bool", s |-> <<>>, n |-> IF b THEN 1 ELSE 0]
S(c) == PyStr(<<c>>)

\* bool(v): None, "", 0 and False are falsy
Truthy(v) ==
    CASE v.kind = "none" -> FALSE
      [] v.kind = "str" -> v.s # <<>>
      [] OTHER -> v.n # 0

IsStr(v) == v.kind = "str"
\* isinstance(v, int); bool is a subclass of int
IsInt(v) == v.kind \in {"int", "bool"}

\* a or b
PyOr(a, b) == IF Truthy(a) THEN a ELSE b

\* d.get(k), d.get(k, default)
GetOr(d, k, default) == IF k \in DOMAIN d THEN d[k] ELSE default
Get(d, k) == GetOr(d, k, PyNone)

\* d[k] = v on a dict
Put(d, k, v) == [x \in DOMAIN d \cup {k} |-> IF x = k THEN v ELSE d[x]]
\* del d[k]
Del(d, k) == [x \in DOMAIN d \ {k} |-> d[x]]

EmptyDict == [x \in {} |-> PyNone]

Whitespace == {" ", "\t", "\n"}

RECURSIVE LStrip(_)
LStrip(cs) ==
    IF cs = <<>> THEN <<>>
    ELSE IF Head(cs) \in Whitespace THEN LStrip(Tail(cs)) ELSE cs

RECURSIVE RStrip(_)
RStrip(cs) ==
    IF cs = <<>> THEN <<>>
    ELSE IF cs[Len(cs)] \in Whitespace THEN RStrip(SubSeq(cs, 1, Len(cs) - 1)) ELSE cs

\* str.strip()
Strip(cs) == RStrip(LStrip(cs))

\* template.replace("{{org}}", name)
RECURSIVE ReplaceOrg(_, _)
ReplaceOrg(template, name) ==
    IF template = <<>> THEN <<>>
    ELSE (IF Head(template) = "{{org}}" THEN name ELSE <<Head(template)>>)
         \o ReplaceOrg(Tail(template), name)

----------------------------------------------------------------------------
(* Module constants *)

DEFAULT_API_BASE_URL == <<"https://api.", "{{org}}", ".code.storage">>
DEFAULT_STORAGE_BASE_URL == <<"{{org}}", ".code.storage">>
DEFAULT_API_VERSION == 1
\* pierre_storage.repo.DEFAULT_TOKEN_TTL_SECONDS (one year)
DEFAULT_TOKEN_TTL_SECONDS == 31536000
\* the literal in _generate_jwt
JwtFallbackTtl == 31536000

MsgNameAndKey ==
    "GitStorage requires a name and key. Please check your configuration and try again."
MsgName == "GitStorage name must be a non-empty string."
MsgKey == "GitStorage key must be a non-empty string."

NoError == [type |-> "", msg |-> ""]
ValueError(m) == [type |-> "ValueError", msg |-> m]

----------------------------------------------------------------------------
(* GitStorage.__init__ *)

get_default_api_base_url(name) == PyStr(ReplaceOrg(DEFAULT_API_BASE_URL, name.s))
get_default_storage_base_url(name) == PyStr(ReplaceOrg(DEFAULT_STORAGE_BASE_URL, name.s))

\* A faulty variant of Validate: the strings are not stripped before the
\* emptiness test, so a whitespace-only name or key passes.
ValidateUnstripped(options) ==
    IF DOMAIN options = {} \/ "name" \notin DOMAIN options \/ "key" \notin DOMAIN options
    THEN ValueError(MsgNameAndKey)
    ELSE IF options["name"] = PyNone \/ options["key"] = PyNone
    THEN ValueError(MsgNameAndKey)
    ELSE IF ~IsStr(options["name"]) \/ options["name"].s = <<>>
    THEN ValueError(MsgName)
    ELSE IF ~IsStr(options["key"]) \/ options["key"].s = <<>>
    THEN ValueError(MsgKey)
    ELSE NoError

\* The validation of __init__: the exception raised, or NoError.
Validate(options) ==
    IF DOMAIN options = {} \/ "name" \notin DOMAIN options \/ "key" \notin DOMAIN options
    THEN ValueError(MsgNameAndKey)
    ELSE IF options["name"] = PyNone \/ options["key"] = PyNone
    THEN ValueError(MsgNameAndKey)
    ELSE IF ~IsStr(options["name"]) \/ Strip(options["name"].s) = <<>>
    THEN ValueError(MsgName)
    ELSE IF ~IsStr(options["key"]) \/ Strip(options["key"].s) = <<>>
    THEN ValueError(MsgKey)
    ELSE NoError

\* The resolved self.options of a validated options dict.
Resolve(options) ==
    LET name == options["name"]
        default_ttl == Get(options, "default_ttl")
        base == [k \in {"name", "key", "api_base_url", "storage_base_url", "api_version"} |->
                   CASE k = "name" -> name
                     [] k = "key" -> options["key"]
                     [] k = "api_base_url" ->
                          PyOr(Get(options, "api_base_url"), get_default_api_base_url(name))
                     [] k = "storage_base_url" ->
                          PyOr(Get(options, "storage_base_url"),
                               get_default_storage_base_url(name))
                     [] OTHER ->
                          PyOr(Get(options, "api_version"), PyInt(DEFAULT_API_VERSION))]
    IN IF Truthy(default_ttl) THEN Put(base, "default_ttl", default_ttl) ELSE base

----------------------------------------------------------------------------
(* Tokens *)

\* pierre_storage.auth.generate_jwt: signing is a black box; a token is the
\* claims it carries and the key that signed it.
generate_jwt(key, name, repo_id, permissions, ttl) ==
    [key |-> key, iss |-> name, sub |-> repo_id, scopes |-> permissions, ttl |-> ttl]

NoToken == [key |-> PyNone, iss |-> PyNone, sub |-> PyNone, scopes |-> {}, ttl |-> PyNone]

\* The options dict of _generate_jwt: the keys present, and their values.
NoJwtOptions == [present |-> {}, permissions |-> {}, ttl |-> PyNone]
JwtOptions(permissions, ttl) ==
    [present |-> {"permissions", "ttl"}, permissions |-> permissions, ttl |-> ttl]
JwtOptionsTtl(ttl) == [present |-> {"ttl"}, permissions |-> {}, ttl |-> ttl]
JwtOptionsPermissions(permissions) ==
    [present |-> {"permissions"}, permissions |-> permissions, ttl |-> PyNone]

\* The ttl _generate_jwt signs with.
JwtTtl(opts, options) ==
    IF options.present # {}
    THEN IF "ttl" \in options.present /\ IsInt(options.ttl)
         THEN options.ttl
         ELSE PyInt(JwtFallbackTtl)
    ELSE IF "default_ttl" \in DOMAIN opts /\ IsInt(opts["default_ttl"])
         THEN opts["default_ttl"]
         ELSE PyInt(JwtFallbackTtl)

\* The permissions _generate_jwt signs with.
JwtPermissions(options) ==
    IF options.present # {} /\ "permissions" \in options.present
    THEN options.permissions
    ELSE {"git:write", "git:read"}

\* GitStorage._generate_jwt
GenerateJwt(opts, repo_id, options) ==
    generate_jwt(opts["key"], opts["name"], repo_id,
                 JwtPermissions(options), JwtTtl(opts, options))

----------------------------------------------------------------------------
(* HTTP *)

\* httpx.Response.is_success
IsSuccess(status) == 200 <= status /\ status <= 299

\* ApiError(message, status_code=..., response=...); of a formatted message
\* ("Failed to ...: {status} {reason}") the fixed start is kept, the status being
\* carried in `status`.
ApiError(msg, status, has_response) ==
    [type |-> "ApiError", msg |-> msg, status |-> status, has_response |-> has_response]
\* body[k] on a body without k
KeyError(k) == [type |-> "KeyError", msg |-> k, status |-> 0, has_response |-> FALSE]
\* An exception of the transport (timeout, connection failure): not caught.
TransportError ==
    [type |-> "httpx.TransportError", msg |-> "", status |-> 0, has_response |-> FALSE]

Raise(err) == [kind |-> "raise", err |-> err]
Return(value) == [kind |-> "return", value |-> value]

\* f"{api_base_url}/api/v{api_version}{path}"
ApiUrl(opts, path) == <<opts["api_base_url"], "/api/v", opts["api_version"], path>>

\* ttl = ttl or DEFAULT_TOKEN_TTL_SECONDS
CallTtl(ttl) == PyOr(ttl, PyInt(DEFAULT_TOKEN_TTL_SECONDS))

\* RepoImpl(repo_id, default_branch, api_base_url, storage_base_url, name, api_version, ...)
RepoImpl(opts, repo_id, default_branch, created_at) ==
    [type |-> "Repo", id |-> repo_id, default_branch |-> default_branch,
     api_base_url |-> opts["api_base_url"], storage_base_url |-> opts["storage_base_url"],
     name |-> opts["name"], api_version |-> opts["api_version"], created_at |-> created_at]

----------------------------------------------------------------------------
(* create_repo *)

\* {**a, **b}
Merge(a, b) == [k \in DOMAIN a \cup DOMAIN b |-> IF k \in DOMAIN b THEN b[k] ELSE a[k]]

\* A faulty variant of ResolveDefaultBranch: with a GitHub spec the explicit
\* argument is tried before the spec's own default_branch.
ResolveDefaultBranchExplicitFirst(default_branch, base_repo) ==
    LET explicit_default_branch == default_branch # PyNone
    IN IF DOMAIN base_repo # {}
       THEN IF "id" \in DOMAIN base_repo
            THEN IF explicit_default_branch
                 THEN [resolved |-> default_branch, sent |-> TRUE]
                 ELSE [resolved |-> PyNone, sent |-> FALSE]
            ELSE IF explicit_default_branch
                 THEN [resolved |-> default_branch, sent |-> TRUE]
                 ELSE IF Truthy(Get(base_repo, "default_branch"))
                 THEN [resolved |-> base_repo["default_branch"], sent |-> TRUE]
                 ELSE [resolved |-> S("main"), sent |-> TRUE]
       ELSE [resolved |-> IF explicit_default_branch THEN default_branch ELSE S("main"),
             sent |-> TRUE]

\* The default-branch resolution of create_repo: the resolved branch (None when
\* unresolved) and whether body["default_branch"] is set (to `resolved`).
ResolveDefaultBranch(default_branch, base_repo) ==
    LET explicit_default_branch == default_branch # PyNone
    IN IF DOMAIN base_repo # {}
       THEN IF "id" \in DOMAIN base_repo
            THEN IF explicit_default_branch
                 THEN [resolved |-> default_branch, sent |-> TRUE]
                 ELSE [resolved |-> PyNone, sent |-> FALSE]
            ELSE IF Truthy(Get(base_repo, "default_branch"))
                 THEN [resolved |-> base_repo["default_branch"], sent |-> TRUE]
                 ELSE IF explicit_default_branch
                 THEN [resolved |-> default_branch, sent |-> TRUE]
                 ELSE [resolved |-> S("main"), sent |-> TRUE]
       ELSE [resolved |-> IF explicit_default_branch THEN default_branch ELSE S("main"),
             sent |-> TRUE]

NoPayload == [fields |-> EmptyDict, auth_token |-> NoToken]

\* A faulty variant of ForkToken: the fork's credential is given the write
\* permission of the bearer token.
ForkTokenWrite(opts, base_repo, ttl) ==
    GenerateJwt(opts, base_repo["id"], JwtOptions({"repo:write"}, ttl))

\* The token embedded as the fork's auth credential.
ForkToken(opts, base_repo, ttl) ==
    GenerateJwt(opts, base_repo["id"], JwtOptions({"git:read"}, ttl))

\* body["base_repo"] for a fork spec
ForkPayload(opts, fork_repo, ttl) ==
    LET p0 == [k \in {"provider", "owner", "name", "operation"} |->
                 CASE k = "provider" -> S("code")
                   [] k = "owner" -> opts["name"]
                   [] k = "name" -> fork_repo["id"]
                   [] OTHER -> S("fork")]
        p1 == IF Truthy(Get(fork_repo, "ref")) THEN Put(p0, "ref", fork_repo["ref"]) ELSE p0
        p2 == IF Truthy(Get(fork_repo, "sha")) THEN Put(p1, "sha", fork_repo["sha"]) ELSE p1
    IN [fields |-> p2, auth_token |-> ForkToken(opts, fork_repo, ttl)]

\* body["base_repo"] for a GitHub spec
GitHubPayload(github_repo) ==
    [fields |-> Merge([k \in {"provider"} |-> S("github")], github_repo),
     auth_token |-> NoToken]

\* The JSON body of the create request.
CreateBody(opts, default_branch, base_repo, ttl) ==
    LET branch == ResolveDefaultBranch(default_branch, base_repo)
    IN [keys |-> (IF branch.sent THEN {"default_branch"} ELSE {})
                 \cup (IF DOMAIN base_repo # {} THEN {"base_repo"} ELSE {}),
        default_branch |-> branch.resolved,
        base_repo |-> IF DOMAIN base_repo = {} THEN NoPayload
                      ELSE IF "id" \in DOMAIN base_repo
                      THEN ForkPayload(opts, base_repo, ttl)
                      ELSE GitHubPayload(base_repo)]

\* The bearer token of the create request.
CreateBearer(opts, repo_id, ttl) == GenerateJwt(opts, repo_id, JwtOptions({"repo:write"}, ttl))

\* What create_repo does with the response.
CreateOutcome(opts, repo_id, resolved, resp) ==
    IF resp.kind = "transport" THEN Raise(TransportError)
    ELSE IF resp.status = 409
    THEN Raise(ApiError("Repository already exists", 409, FALSE))
    ELSE IF ~IsSuccess(resp.status)
    THEN Raise(ApiError("Failed to create repository", resp.status, TRUE))
    ELSE Return(RepoImpl(opts, repo_id, PyOr(resolved, S("main")), S("now")))

\* GitStorage.create_repo, as one call: its arguments, the request it sends,
\* the tokens it issues, the response, and how it ends.
create_repo(opts, id, default_branch, base_repo, ttl0, uuid, resp) ==
    LET repo_id == PyOr(id, uuid)
        ttl == CallTtl(ttl0)
        jwt == CreateBearer(opts, repo_id, ttl)
        body == CreateBody(opts, default_branch, base_repo, ttl)
    IN [op |-> "create_repo",
        args |-> [id |-> id, default_branch |-> default_branch,
                  base_repo |-> base_repo, ttl |-> ttl0],
        repo_id |-> repo_id,
        issued |-> IF "id" \in DOMAIN base_repo
                   THEN <<jwt, body.base_repo.auth_token>> ELSE <<jwt>>,
        request |-> [method |-> "POST", url |-> ApiUrl(opts, "/repos"),
                     bearer |-> jwt, body |-> body],
        response |-> resp,
        outcome |-> CreateOutcome(opts, repo_id, body.default_branch, resp)]

----------------------------------------------------------------------------
(* list_repos *)

\* The query parameters of the list request.
ListParams(cursor, limit) ==
    LET p0 == IF Truthy(cursor) THEN Put(EmptyDict, "cursor", cursor) ELSE EmptyDict
    IN IF limit # PyNone THEN Put(p0, "limit", S(ToString(limit.n))) ELSE p0

\* One RepoInfo of the listing, from one entry of the response.
RepoInfo(repo) ==
    LET entry == [k \in {"repo_id", "url", "default_branch", "created_at"} |->
                    CASE k = "default_branch" -> GetOr(repo, k, S("main"))
                      [] OTHER -> GetOr(repo, k, PyStr(<<>>))]
    IN IF Truthy(Get(repo, "base_repo"))
       THEN Put(entry, "base_repo", Get(repo, "base_repo"))
       ELSE entry

\* A faulty variant of ListedRepos: an entry without a base_repo is skipped
\* instead of being listed without one.
ListedReposWithBaseOnly(data) ==
    LET rs == IF "repos" \in data.keys THEN data.repos ELSE <<>>
        kept == SelectSeq(rs, LAMBDA repo : Truthy(Get(repo, "base_repo")))
    IN [i \in 1..Len(kept) |-> RepoInfo(kept[i])]

\* The repos of the listing: data.get("repos", []) mapped in order.
ListedRepos(data) ==
    LET rs == IF "repos" \in data.keys THEN data.repos ELSE <<>>
    IN [i \in 1..Len(rs) |-> RepoInfo(rs[i])]

\* The ListReposResult of a response body.
ListResult(data) ==
    [type |-> "ListReposResult",
     repos |-> ListedRepos(data),
     next_cursor |-> IF "next_cursor" \in data.keys THEN data.next_cursor ELSE PyNone,
     has_more |-> IF "has_more" \in data.keys THEN data.has_more ELSE PyBool(FALSE)]

\* What list_repos does with the response.
ListOutcome(resp) ==
    IF resp.kind = "transport" THEN Raise(TransportError)
    ELSE IF ~IsSuccess(resp.status)
    THEN Raise(ApiError("Failed to list repositories", resp.status, TRUE))
    ELSE Return(ListResult(resp.body))

\* The bearer token of the list request.
ListBearer(opts, ttl) == GenerateJwt(opts, S("org"), JwtOptions({"org:read"}, ttl))

\* GitStorage.list_repos, as one call.
list_repos(opts, cursor, limit, ttl0, resp) ==
    LET ttl == CallTtl(ttl0)
        jwt == ListBearer(opts, ttl)
    IN [op |-> "list_repos",
        args |-> [cursor |-> cursor, limit |-> limit, ttl |-> ttl0],
        issued |-> <<jwt>>,
        request |-> [method |-> "GET", url |-> ApiUrl(opts, "/repos"),
                     params |-> ListParams(cursor, limit), bearer |-> jwt],
        response |-> resp,
        outcome |-> ListOutcome(resp)]

----------------------------------------------------------------------------
(* find_one *)

\* A faulty variant of FindOutcome: a 404 is an error like any other non-2xx.
FindOutcomeNotFoundRaises(opts, repo_id, resp) ==
    IF resp.kind = "transport" THEN Raise(TransportError)
    ELSE IF ~IsSuccess(resp.status)
    THEN Raise(ApiError("Failed to find repository", resp.status, TRUE))
    ELSE Return(RepoImpl(opts, repo_id, GetOr(resp.body, "default_branch", S("main")),
                         GetOr(resp.body, "created_at", PyStr(<<>>))))

\* What find_one does with the response.
FindOutcome(opts, repo_id, resp) ==
    IF resp.kind = "transport" THEN Raise(TransportError)
    ELSE IF resp.status = 404 THEN Return([type |-> "None"])
    ELSE IF ~IsSuccess(resp.status)
    THEN Raise(ApiError("Failed to find repository", resp.status, TRUE))
    ELSE Return(RepoImpl(opts, repo_id, GetOr(resp.body, "default_branch", S("main")),
                         GetOr(resp.body, "created_at", PyStr(<<>>))))

\* The bearer token of the find request.
FindBearer(opts, repo_id) ==
    GenerateJwt(opts, repo_id, JwtOptions({"git:read"}, PyInt(DEFAULT_TOKEN_TTL_SECONDS)))

\* GitStorage.find_one, as one call.
find_one(opts, id, resp) ==
    LET jwt == FindBearer(opts, id)
    IN [op |-> "find_one",
        args |-> [id |-> id],
        issued |-> <<jwt>>,
        request |-> [method |-> "GET", url |-> ApiUrl(opts, "/repo"), bearer |-> jwt],
        response |-> resp,
        outcome |-> FindOutcome(opts, id, resp)]

----------------------------------------------------------------------------
(* delete_repo *)

\* A faulty variant of DeleteOutcome: the 409 test is missing, so an already
\* deleted repository is reported with the general message.
DeleteOutcomeNoConflict(resp) ==
    IF resp.kind = "transport" THEN Raise(TransportError)
    ELSE IF resp.status = 404 THEN Raise(ApiError("Repository not found", 404, FALSE))
    ELSE IF ~IsSuccess(resp.status)
    THEN Raise(ApiError("Failed to delete repository", resp.status, TRUE))
    ELSE IF "repo_id" \notin DOMAIN resp.body THEN Raise(KeyError("repo_id"))
    ELSE IF "message" \notin DOMAIN resp.body THEN Raise(KeyError("message"))
    ELSE Return([type |-> "DeleteRepoResult", repo_id |-> resp.body["repo_id"],
                 message |-> resp.body["message"]])

\* What delete_repo does with the response.
DeleteOutcome(resp) ==
    IF resp.kind = "transport" THEN Raise(TransportError)
    ELSE IF resp.status = 404 THEN Raise(ApiError("Repository not found", 404, FALSE))
    ELSE IF resp.status = 409 THEN Raise(ApiError("Repository already deleted", 409, FALSE))
    ELSE IF ~IsSuccess(resp.status)
    THEN Raise(ApiError("Failed to delete repository", resp.status, TRUE))
    ELSE IF "repo_id" \notin DOMAIN resp.body THEN Raise(KeyError("repo_id"))
    ELSE IF "message" \notin DOMAIN resp.body THEN Raise(KeyError("message"))
    ELSE Return([type |-> "DeleteRepoResult", repo_id |-> resp.body["repo_id"],
                 message |-> resp.body["message"]])

\* The bearer token of the delete request.
DeleteBearer(opts, repo_id, ttl) == GenerateJwt(opts, repo_id, JwtOptions({"repo:write"}, ttl))

\* GitStorage.delete_repo, as one call.
delete_repo(opts, id, ttl0, resp) ==
    LET ttl == CallTtl(ttl0)
        jwt == DeleteBearer(opts, id, ttl)
    IN [op |-> "delete_repo",
        args |-> [id |-> id, ttl |-> ttl0],
        issued |-> <<jwt>>,
        request |-> [method |-> "DELETE", url |-> ApiUrl(opts, "/repos/delete"),
                     bearer |-> jwt],
        response |-> resp,
        outcome |-> DeleteOutcome(resp)]

----------------------------------------------------------------------------
(* The token issuer called directly (a Repo handle holds self._generate_jwt) *)

issue_token(opts, repo_id, options) ==
    LET jwt == GenerateJwt(opts, repo_id, options)
    IN [op |-> "_generate_jwt",
        args |-> [repo_id |-> repo_id, options |-> options],
        issued |-> <<jwt>>,
        outcome |-> Return(jwt)]

----------------------------------------------------------------------------
(* get_config *)

Refs == {"self", "copy"}

\* A faulty variant of GetConfigRef: get_config returns self.options itself.
GetConfigAlias == "self"

\* The dict get_config returns: a new dict, {**self.options}.
GetConfigRef == "copy"

----------------------------------------------------------------------------
(* The inputs the model draws from *)

Missing == [kind |-> "missing", s |-> <<>>, n |-> 0]

\* A dict of the given values, a key whose value is Missing left out.
Dict(all) == [k \in {x \in DOMAIN all : all[x] # Missing} |-> all[k]]

NameArgs == {Missing, PyNone, PyInt(42), PyStr(<<>>), PyStr(<<" ", "\t">>), S("acme"),
             PyStr(<<"acme", " ">>)}
KeyArgs == {Missing, PyNone, PyInt(42), PyStr(<<>>), PyStr(<<"\n">>), S("KEY")}
ApiBaseUrlArgs == {Missing, S("https://api.test.code.storage")}
StorageBaseUrlArgs == {Missing, S("test.code.storage")}
ApiVersionArgs == {Missing, PyInt(2)}
DefaultTtlArgs == {Missing, PyInt(0), PyInt(3600)}

Options(name, key, api_base_url, storage_base_url, api_version, default_ttl) ==
    Dict([k \in {"name", "key", "api_base_url", "storage_base_url", "api_version",
                 "default_ttl"} |->
            CASE k = "name" -> name
              [] k = "key" -> key
              [] k = "api_base_url" -> api_base_url
              [] k = "storage_base_url" -> storage_base_url
              [] k = "api_version" -> api_version
              [] OTHER -> default_ttl])

\* tests/conftest.py: git_storage_options
git_storage_options ==
    Options(S("test-customer"), S("TEST_KEY"), S("https://api.test.code.storage"),
            S("test.code.storage"), PyInt(1), Missing)

IdArgs == {S("r1"), S("r2")}
OptIdArgs == {PyNone, S("r1")}
Uuids == {S("uuid4")}
BranchArgs == {PyNone, PyStr(<<>>), S("dev")}
TtlArgs == {PyNone, PyInt(0), PyInt(60)}

ForkSpec(id, ref, sha) ==
    Dict([k \in {"id", "ref", "sha"} |->
            CASE k = "id" -> id [] k = "ref" -> ref [] OTHER -> sha])
GitHubSpec(default_branch) ==
    Dict([k \in {"owner", "name", "default_branch"} |->
            CASE k = "owner" -> S("octo") [] k = "name" -> S("hello")
              [] OTHER -> default_branch])

BaseRepoArgs ==
    {EmptyDict,
     ForkSpec(S("base"), Missing, Missing), ForkSpec(S("r1"), S("v1"), PyStr(<<>>)),
     GitHubSpec(Missing), GitHubSpec(PyStr(<<>>)), GitHubSpec(S("release"))}

Statuses == {200, 201, 302, 404, 409, 500}

Http(status, body) == [kind |-> "http", status |-> status, body |-> body]
TransportFailure == [kind |-> "transport", status |-> 0, body |-> EmptyDict]

\* Responses whose body the handler does not read.
PlainResponses(statuses) == {TransportFailure} \cup {Http(s, EmptyDict) : s \in statuses}

SeqsUpTo(set, n) == UNION {[1..k -> set] : k \in 0..n}

ListEntries ==
    {Dict([k \in {"repo_id"} |-> S("a")]),
     Dict([k \in {"repo_id", "url", "default_branch", "created_at", "base_repo"} |->
             CASE k = "repo_id" -> S("b") [] k = "url" -> S("https://b")
               [] k = "default_branch" -> S("dev") [] k = "created_at" -> S("t0")
               [] OTHER -> S("github:octo/hello")])}

ListBodies ==
    {[keys |-> ks, repos |-> rs, next_cursor |-> nc, has_more |-> hm] :
        ks \in {{"repos", "next_cursor", "has_more"}}, rs \in SeqsUpTo(ListEntries, MaxRepos),
        nc \in {PyNone, S("c2")}, hm \in {PyBool(TRUE), PyBool(FALSE)}}
    \cup
    {[keys |-> ks, repos |-> <<>>, next_cursor |-> PyNone, has_more |-> PyBool(FALSE)] :
        ks \in {{}, {"repos"}}}
    \cup
    {[keys |-> {"next_cursor", "has_more"}, repos |-> <<>>, next_cursor |-> S("c2"),
      has_more |-> PyBool(TRUE)]}

FindBodies ==
    {Dict([k \in {"default_branch", "created_at"} |->
             CASE k = "default_branch" -> b [] OTHER -> c]) :
        b \in {Missing, S("dev")}, c \in {Missing, S("t0")}}

DeleteBodies ==
    {Dict([k \in {"repo_id", "message"} |->
             CASE k = "repo_id" -> r [] OTHER -> m]) :
        r \in {Missing, S("r1")}, m \in {Missing, S("deleted")}}

NonSuccess == {s \in Statuses : ~IsSuccess(s)}

CreateResponses == PlainResponses(Statuses)
ListResponses == PlainResponses(NonSuccess) \cup {Http(200, b) : b \in ListBodies}
FindResponses == PlainResponses(NonSuccess) \cup {Http(200, b) : b \in FindBodies}
DeleteResponses == PlainResponses(NonSuccess) \cup {Http(200, b) : b \in DeleteBodies}

IssuerOptions ==
    {NoJwtOptions, JwtOptionsPermissions({"git:read"})}
    \cup {JwtOptionsTtl(x) : x \in {PyNone, PyInt(0), PyInt(60)}}
    \cup {JwtOptions({"git:write"}, PyInt(60))}

----------------------------------------------------------------------------
(* The sequential caller: one client, one call at a time *)

Idle == [op |-> "idle"]
Tasks == 1..NTasks
IdleTask == [pc |-> "idle", call |-> Idle, conn |-> FALSE, sent |-> 0,
             outcome |-> [kind |-> "none"]]

Init ==
    /\ phase = "start"
    /\ ctorInput = EmptyDict
    /\ ctorError = NoError
    /\ heap = [r \in Refs |-> EmptyDict]
    /\ held = "none"
    /\ mutated = FALSE
    /\ last = Idle
    /\ task = [t \in Tasks |-> IdleTask]
    /\ requests = 0

\* self.options
SelfOptions == heap["self"]

\* GitStorage(options)
Construct ==
    /\ phase = "start"
    /\ \E name \in NameArgs, key \in KeyArgs, api_base_url \in ApiBaseUrlArgs,
          storage_base_url \in StorageBaseUrlArgs, api_version \in ApiVersionArgs,
          default_ttl \in DefaultTtlArgs :
         LET options == Options(name, key, api_base_url, storage_base_url, api_version,
                                default_ttl)
             err == Validate(options)
         IN /\ ctorInput' = options
            /\ ctorError' = err
            /\ IF err = NoError
               THEN /\ phase' = "ready"
                    /\ heap' = [heap EXCEPT !["self"] = Resolve(options)]
               ELSE /\ phase' = "failed"
                    /\ UNCHANGED heap
    /\ UNCHANGED <<held, mutated, last, task, requests>>

CanCall == phase = "ready" /\ last = Idle

CreateRepo ==
    /\ CanCall
    /\ \E id \in OptIdArgs, default_branch \in BranchArgs, base_repo \in BaseRepoArgs,
          ttl \in TtlArgs, uuid \in Uuids, resp \in CreateResponses :
         last' = create_repo(SelfOptions, id, default_branch, base_repo, ttl, uuid, resp)
    /\ UNCHANGED <<phase, ctorInput, ctorError, heap, held, mutated, task, requests>>

ListRepos ==
    /\ CanCall
    /\ \E cursor \in {PyNone, S("c1")}, limit \in {PyNone, PyInt(5)},
          ttl \in {PyNone, PyInt(60)}, resp \in ListResponses :
         last' = list_repos(SelfOptions, cursor, limit, ttl, resp)
    /\ UNCHANGED <<phase, ctorInput, ctorError, heap, held, mutated, task, requests>>

FindOne ==
    /\ CanCall
    /\ \E id \in IdArgs, resp \in FindResponses :
         last' = find_one(SelfOptions, id, resp)
    /\ UNCHANGED <<phase, ctorInput, ctorError, heap, held, mutated, task, requests>>

DeleteRepo ==
    /\ CanCall
    /\ \E id \in IdArgs, ttl \in TtlArgs, resp \in DeleteResponses :
         last' = delete_repo(SelfOptions, id, ttl, resp)
    /\ UNCHANGED <<phase, ctorInput, ctorError, heap, held, mutated, task, requests>>

IssueToken ==
    /\ CanCall
    /\ \E repo_id \in IdArgs, options \in IssuerOptions :
         last' = issue_token(SelfOptions, repo_id, options)
    /\ UNCHANGED <<phase, ctorInput, ctorError, heap, held, mutated, task, requests>>

\* client.get_config(): the caller now holds the returned dict.
GetConfig ==
    /\ CanCall
    /\ held' = GetConfigRef
    /\ heap' = [heap EXCEPT ![GetConfigRef] = SelfOptions]
    /\ last' = [op |-> "get_config", outcome |-> Return(SelfOptions)]
    /\ UNCHANGED <<phase, ctorInput, ctorError, mutated, task, requests>>

\* The caller adds, replaces or deletes a key of the dict it holds.
MutateHeld ==
    /\ CanCall
    /\ held \in Refs
    /\ \/ \E k \in {"name", "extra"} : heap' = [heap EXCEPT ![held] = Put(@, k, S("evil"))]
       \/ \E k \in {"name"} : k \in DOMAIN heap[held]
                              /\ heap' = [heap EXCEPT ![held] = Del(@, k)]
    /\ mutated' = TRUE
    /\ UNCHANGED <<phase, ctorInput, ctorError, held, last, task, requests>>

\* The caller has looked at the result and goes on.
Continue ==
    /\ last # Idle
    /\ last' = Idle
    /\ UNCHANGED <<phase, ctorInput, ctorError, heap, held, mutated, task, requests>>

Next ==
    \/ Construct
    \/ CreateRepo
    \/ ListRepos
    \/ FindOne
    \/ DeleteRepo
    \/ IssueToken
    \/ GetConfig
    \/ MutateHeld
    \/ Continue

Spec == Init /\ [][Next]_vars

----------------------------------------------------------------------------
(* Concurrent tasks: each runs one operation, a step per await point *)

\* The calls the tasks make: the operation and its arguments.
Invocations ==
    {[op |-> "create_repo", id |-> PyNone, default_branch |-> PyNone,
      base_repo |-> ForkSpec(S("base"), Missing, Missing), ttl |-> PyNone],
     [op |-> "list_repos", cursor |-> PyNone, limit |-> PyInt(5), ttl |-> PyNone],
     [op |-> "find_one", id |-> S("r1")],
     [op |-> "delete_repo", id |-> S("r1"), ttl |-> PyInt(60)]}

TaskStatuses == {200, 404, 409, 500}

\* What the transport may answer to a call.
TaskResponses(inv) ==
    PlainResponses(TaskStatuses \ {200}) \cup
    CASE inv.op = "create_repo" -> {Http(200, EmptyDict)}
      [] inv.op = "list_repos" ->
           {Http(200, [keys |-> {"repos"}, repos |-> <<>>, next_cursor |-> PyNone,
                       has_more |-> PyBool(FALSE)])}
      [] inv.op = "find_one" -> {Http(200, EmptyDict)}
      [] OTHER -> {Http(200, b) : b \in {d \in DeleteBodies : DOMAIN d # {"repo_id"}}}

\* The call `inv` run to its end on response `resp`.
Perform(opts, inv, resp) ==
    CASE inv.op = "create_repo" ->
           create_repo(opts, inv.id, inv.default_branch, inv.base_repo, inv.ttl,
                       S("uuid4"), resp)
      [] inv.op = "list_repos" -> list_repos(opts, inv.cursor, inv.limit, inv.ttl, resp)
      [] inv.op = "find_one" -> find_one(opts, inv.id, resp)
      [] OTHER -> delete_repo(opts, inv.id, inv.ttl, resp)

\* A faulty variant of OpenAfterExit: the connection is closed by hand at the
\* end of the block, which a raise skips.
OpenAfterRaise(outcome) == outcome.kind = "raise"

\* Whether the connection is still open once the `async with` block is left
\* with `outcome`: __aexit__ closes it however the block ends.
OpenAfterExit(outcome) == FALSE

\* The requests one call of the transport's post/get/delete sends: no retry.
RequestsPerCall == 1

InitConc ==
    /\ phase = "ready"
    /\ ctorInput = git_storage_options
    /\ ctorError = Validate(git_storage_options)
    /\ heap = [r \in Refs |-> IF r = "self" THEN Resolve(git_storage_options) ELSE EmptyDict]
    /\ held = "none"
    /\ mutated = FALSE
    /\ last = Idle
    /\ task = [t \in Tasks |-> IdleTask]
    /\ requests = 0

\* The task calls an operation: the code up to `async with` issues the tokens
\* and builds the request.
Invoke(t) ==
    /\ task[t].pc = "idle"
    /\ \E inv \in Invocations : task' = [task EXCEPT ![t].pc = "entering", ![t].call = inv]
    /\ UNCHANGED <<phase, ctorInput, ctorError, heap, held, mutated, last, requests>>

\* async with httpx.AsyncClient() as client: the task's own connection opens.
Enter(t) ==
    /\ task[t].pc = "entering"
    /\ task' = [task EXCEPT ![t].pc = "requesting", ![t].conn = TRUE]
    /\ UNCHANGED <<phase, ctorInput, ctorError, heap, held, mutated, last, requests>>

\* await client.post/get/delete(...): the request goes out.
Request(t) ==
    /\ task[t].pc = "requesting"
    /\ task' = [task EXCEPT ![t].pc = "awaiting", ![t].sent = @ + RequestsPerCall]
    /\ requests' = requests + RequestsPerCall
    /\ UNCHANGED <<phase, ctorInput, ctorError, heap, held, mutated, last>>

\* The await ends with a response or a transport failure; the handler runs to
\* the end of the block (a return or a raise).
Respond(t) ==
    /\ task[t].pc = "awaiting"
    /\ \E resp \in TaskResponses(task[t].call) :
         task' = [task EXCEPT ![t].pc = "exiting",
                              ![t].outcome = Perform(SelfOptions, task[t].call, resp).outcome]
    /\ UNCHANGED <<phase, ctorInput, ctorError, heap, held, mutated, last, requests>>

\* The block is left: __aexit__ releases the connection.
Exit(t) ==
    /\ task[t].pc = "exiting"
    /\ task' = [task EXCEPT ![t].pc = "done", ![t].conn = OpenAfterExit(task[t].outcome)]
    /\ UNCHANGED <<phase, ctorInput, ctorError, heap, held, mutated, last, requests>>

NextConc ==
    \E t \in Tasks :
        \/ Invoke(t)
        \/ Enter(t)
        \/ Request(t)
        \/ Respond(t)
        \/ Exit(t)

SpecConc == InitConc /\ [][NextConc]_vars

----------------------------------------------------------------------------
(* Vocabulary of the claims *)

\* A string of nothing but whitespace (the empty string included).
Blank(v) == \A i \in 1..Len(v.s) : v.s[i] \in Whitespace

\* The options lack `k`: key missing, value None, not a string, or blank.
Lacks(options, k) ==
    \/ k \notin DOMAIN options
    \/ options[k].kind # "str"
    \/ Blank(options[k])

Constructed == phase # "start"
IsCall(op) == last.op = op
Answered == last.response.kind = "http"
Raised == last.outcome.kind = "raise"
Returned(type) == last.outcome.kind = "return" /\ last.outcome.value.type = type
RaisedApiError(status) ==
    Raised /\ last.outcome.err.type = "ApiError" /\ last.outcome.err.status = status
HttpOps == {"create_repo", "list_repos", "find_one", "delete_repo"}

----------------------------------------------------------------------------
(* C1 *)

\* C1 as stated: options that lack name or key make the constructor fail with
\* ConfigurationError, whatever the other fields, and leave no client and no call.
C1_Original ==
    (Constructed /\ (Lacks(ctorInput, "name") \/ Lacks(ctorInput, "key")))
        => /\ phase = "failed"
           /\ ctorError.type = "ConfigurationError"
           /\ heap["self"] = EmptyDict
           /\ last = Idle

\* C1 amended: the constructor fails with ValueError (the exception the code
\* raises and documents), whatever the other fields, and leaves no client
\* object and no call made.
C1_ValueError ==
    (Constructed /\ (Lacks(ctorInput, "name") \/ Lacks(ctorInput, "key")))
        => /\ phase = "failed"
           /\ ctorError.type = "ValueError"
           /\ heap["self"] = EmptyDict
           /\ last = Idle

\* A whitespace-only name beside a good key and every other field given.
C1_Witness ==
    /\ phase = "failed"
    /\ "name" \in DOMAIN ctorInput /\ IsStr(ctorInput["name"])
    /\ ctorInput["name"].s # <<>> /\ Blank(ctorInput["name"])
    /\ ~Lacks(ctorInput, "key")
    /\ {"api_base_url", "storage_base_url", "api_version", "default_ttl"}
           \subseteq DOMAIN ctorInput

----------------------------------------------------------------------------
(* C2 *)

IsFork(base_repo) == "id" \in DOMAIN base_repo
IsGitHub(base_repo) == DOMAIN base_repo # {} /\ ~IsFork(base_repo)

\* The body's default_branch field is `value`.
SendsBranch(value) ==
    /\ "default_branch" \in last.request.body.keys
    /\ last.request.body.default_branch = value
SendsNoBranch == "default_branch" \notin last.request.body.keys

\* The precedence of the claim, `present` deciding when a GitHub spec's
\* default_branch counts as present.
BranchPrecedence(present) ==
    LET a == last.args
        explicit == a.default_branch # PyNone
    IN IF IsFork(a.base_repo)
       THEN IF explicit THEN SendsBranch(a.default_branch) ELSE SendsNoBranch
       ELSE IF IsGitHub(a.base_repo) /\ present
       THEN SendsBranch(a.base_repo["default_branch"])
       ELSE IF explicit THEN SendsBranch(a.default_branch)
       ELSE SendsBranch(S("main"))

\* C2 as stated: a GitHub spec's default_branch wins whenever the field is present.
C2_Original ==
    IsCall("create_repo") =>
        BranchPrecedence("default_branch" \in DOMAIN last.args.base_repo)

\* C2 amended: a GitHub spec's default_branch wins when it is present and not
\* empty; an empty one counts as absent.  The rest of the precedence is as stated.
C2_NonEmptyWins ==
    IsCall("create_repo") =>
        BranchPrecedence("default_branch" \in DOMAIN last.args.base_repo
                         /\ last.args.base_repo["default_branch"].s # <<>>)

\* A GitHub spec's branch sent although the caller gave another one.
C2_Witness ==
    /\ IsCall("create_repo")
    /\ IsGitHub(last.args.base_repo)
    /\ last.args.default_branch = S("dev")
    /\ SendsBranch(S("release"))

----------------------------------------------------------------------------
(* C3 *)

\* C3: find_one returns None exactly on 404, raises ApiError on every other
\* non-2xx status and returns a Repo exactly on 2xx; a 404 answer to create_repo,
\* list_repos or delete_repo always ends in an error.
C3_NotFoundOnlyFindOne ==
    /\ (IsCall("find_one") /\ Answered) =>
          LET s == last.response.status
          IN /\ Returned("None") <=> s = 404
             /\ (~IsSuccess(s) /\ s # 404) => RaisedApiError(s)
             /\ Returned("Repo") <=> IsSuccess(s)
    /\ (last.op \in HttpOps \ {"find_one"} /\ Answered /\ last.response.status = 404)
          => Raised

C3_Witness == IsCall("find_one") /\ Answered /\ last.response.status = 404 /\ Returned("None")

----------------------------------------------------------------------------
(* C4 *)

ErrType == last.outcome.err.type
ErrMsg == last.outcome.err.msg

\* C4 as stated: 409 on create is a ConflictError, 404 on delete a NotFoundError,
\* 409 on delete a ConflictError, any other non-2xx an ApiError with the status.
C4_Original ==
    (last.op \in {"create_repo", "delete_repo"} /\ Answered
        /\ ~IsSuccess(last.response.status)) =>
        LET s == last.response.status
        IN /\ Raised
           /\ IF s = 409 THEN ErrType = "ConflictError"
              ELSE IF s = 404 /\ IsCall("delete_repo") THEN ErrType = "NotFoundError"
              ELSE RaisedApiError(s)

\* C4 amended: every non-2xx status on create_repo and delete_repo raises ApiError
\* carrying that status and nothing is returned; what tells the cases apart is
\* the message: "Repository already exists" for a 409 on create, "Repository not
\* found" for a 404 and "Repository already deleted" for a 409 on delete, the
\* general message with the response attached otherwise.
C4_ApiErrorWithStatus ==
    (last.op \in {"create_repo", "delete_repo"} /\ Answered
        /\ ~IsSuccess(last.response.status)) =>
        LET s == last.response.status
        IN /\ RaisedApiError(s)
           /\ IF IsCall("create_repo")
              THEN IF s = 409
                   THEN ErrMsg = "Repository already exists"
                   ELSE ErrMsg = "Failed to create repository"
                        /\ last.outcome.err.has_response
              ELSE IF s = 404 THEN ErrMsg = "Repository not found"
              ELSE IF s = 409 THEN ErrMsg = "Repository already deleted"
              ELSE ErrMsg = "Failed to delete repository" /\ last.outcome.err.has_response

C4_Witness ==
    IsCall("delete_repo") /\ Answered /\ last.response.status = 409 /\ RaisedApiError(409)

----------------------------------------------------------------------------
(* C5 *)

\* The TTL the caller gave at the call site, PyNone when it gave none.
CallSiteTtl ==
    IF IsCall("_generate_jwt")
    THEN IF "ttl" \in last.args.options.present THEN last.args.options.ttl ELSE PyNone
    ELSE last.args.ttl

\* The TTL the claim's precedence asks for: the call-site TTL, else the
\* client's default_ttl, else one year.
ClaimedTtl ==
    IF CallSiteTtl # PyNone THEN CallSiteTtl
    ELSE IF "default_ttl" \in DOMAIN SelfOptions THEN SelfOptions["default_ttl"]
    ELSE PyInt(31536000)

\* C5 as stated: every token issued by create_repo, list_repos, delete_repo or
\* the token issuer carries the call-site TTL when one is given, else the
\* client's default_ttl when one is configured, else 31,536,000 seconds.
C5_TtlPrecedence ==
    last.op \in {"create_repo", "list_repos", "delete_repo", "_generate_jwt"} =>
        \A i \in 1..Len(last.issued) : last.issued[i].ttl = ClaimedTtl

----------------------------------------------------------------------------
(* C6 *)

Bearer == last.request.bearer
Scoped(token, subject, scopes) ==
    /\ token.sub = subject
    /\ token.scopes = scopes
    /\ token.key = ctorInput["key"]
    /\ token.iss = ctorInput["name"]

\* C6: the bearer token of every request has the subject and the permissions
\* of its operation, and a fork's second token (subject base_repo.id, git:read)
\* goes into the body's base_repo credential only, never into the bearer.
C6_TokenScopes ==
    /\ IsCall("create_repo") =>
          /\ Scoped(Bearer, IF last.args.id \notin {PyNone, PyStr(<<>>)}
                            THEN last.args.id ELSE Bearer.sub, {"repo:write"})
          /\ (last.args.id \in {PyNone, PyStr(<<>>)}) => Bearer.sub \in Uuids
          /\ Returned("Repo") => last.outcome.value.id = Bearer.sub
          /\ LET credential == last.request.body.base_repo.auth_token
             IN IF IsFork(last.args.base_repo)
                THEN /\ Scoped(credential, last.args.base_repo["id"], {"git:read"})
                     /\ credential # Bearer
                     /\ last.issued = <<Bearer, credential>>
                ELSE /\ credential = NoToken
                     /\ last.issued = <<Bearer>>
    /\ IsCall("list_repos") => Scoped(Bearer, S("org"), {"org:read"})
    /\ IsCall("find_one") => Scoped(Bearer, last.args.id, {"git:read"})
    /\ IsCall("delete_repo") => Scoped(Bearer, last.args.id, {"repo:write"})
    /\ last.op \in HttpOps \ {"create_repo"} => last.issued = <<Bearer>>

\* A fork of the repository whose id the new repository is also given: the two
\* tokens share the subject and differ in their permissions.
C6_Witness ==
    /\ IsCall("create_repo")
    /\ IsFork(last.args.base_repo)
    /\ last.args.id = last.args.base_repo["id"]
    /\ Returned("Repo")

----------------------------------------------------------------------------
(* C7 *)

\* C7: once constructed, self.options is the configuration resolved from the
\* constructor's options and stays so whatever the caller calls or does to the
\* dicts get_config returned, and get_config returns that configuration.
C7_ConfigImmutable ==
    phase = "ready" =>
        /\ SelfOptions = Resolve(ctorInput)
        /\ IsCall("get_config") => last.outcome = Return(Resolve(ctorInput))
        /\ held # "self"

\* get_config called again after the caller changed the dict an earlier
\* get_config returned.
C7_Witness == phase = "ready" /\ mutated /\ IsCall("get_config")

----------------------------------------------------------------------------
(* C8 *)

InBlock == {"requesting", "awaiting", "exiting"}
ReachedTransport == {t \in Tasks : task[t].pc \in {"awaiting", "exiting", "done"}}
AllDone == \A t \in Tasks : task[t].pc = "done"

\* C8: each operation sends exactly one request on its own connection and the
\* connection is released however the operation ends: a connection is open only
\* inside the operation's block, a finished operation has sent one request and
\* holds no connection, and the requests sent are as many as the operations
\* that reached the transport.
C8_OneRequestAndRelease ==
    /\ \A t \in Tasks :
          /\ task[t].conn => task[t].pc \in InBlock
          /\ task[t].sent = IF t \in ReachedTransport THEN 1 ELSE 0
          /\ task[t].pc = "done" => task[t].outcome.kind \in {"return", "raise"}
    /\ requests = Cardinality(ReachedTransport)
    /\ AllDone => /\ \A t \in Tasks : ~task[t].conn
                  /\ requests = NTasks

\* All operations are over, one by a transport failure, one by a mapped error.
C8_Witness ==
    /\ AllDone
    /\ \E t \in Tasks : /\ task[t].outcome.kind = "raise"
                        /\ task[t].outcome.err.type = "httpx.TransportError"
    /\ \E t \in Tasks : /\ task[t].outcome.kind = "raise"
                        /\ task[t].outcome.err.type = "ApiError"

----------------------------------------------------------------------------
(* C9 *)

\* C9: on a successful response, the listing's next_cursor and has_more are the
\* body's (None and False when the body has none), and its repos are the body's
\* repos in number and order, whatever cursor, limit and ttl were passed.
C9_PaginationRoundTrip ==
    (IsCall("list_repos") /\ Answered /\ IsSuccess(last.response.status)) =>
        LET data == last.response.body
            sent == IF "repos" \in data.keys THEN data.repos ELSE <<>>
        IN /\ Returned("ListReposResult")
           /\ last.outcome.value.next_cursor =
                 (IF "next_cursor" \in data.keys THEN data.next_cursor ELSE PyNone)
           /\ last.outcome.value.has_more =
                 (IF "has_more" \in data.keys THEN data.has_more ELSE PyBool(FALSE))
           /\ Len(last.outcome.value.repos) = Len(sent)
           /\ \A i \in 1..Len(sent) :
                 last.outcome.value.repos[i]["repo_id"] = sent[i]["repo_id"]

\* A page of two different repositories with a cursor to the next page.
C9_Witness ==
    /\ IsCall("list_repos") /\ Returned("ListReposResult")
    /\ last.args.cursor = S("c1")
    /\ last.outcome.value.next_cursor = S("c2")
    /\ last.outcome.value.has_more = PyBool(TRUE)
    /\ Len(last.outcome.value.repos) >= 2
    /\ last.outcome.value.repos[1]["repo_id"] = S("b")
    /\ last.outcome.value.repos[2]["repo_id"] = S("a")

----------------------------------------------------------------------------
(* C10 *)

\* C10 as stated: the Repo a successful create_repo returns has the default
\* branch the request body sent, and "main" when the body sent none.
C10_RepoBranchIsSentBranch ==
    (IsCall("create_repo") /\ Returned("Repo")) =>
        last.outcome.value.default_branch =
            (IF "default_branch" \in last.request.body.keys
             THEN last.request.body.default_branch
             ELSE S("main"))

====
